---- MODULE Spec2Model ----
(***************************************************************************)
(* Model of src/index.tsx: the single-page "image fusion" tool.  The       *)
(* state is the module-level variables of the script (uploadedImage,       *)
(* selectedReferenceImage, ai), the DOM fields its functions read and      *)
(* write, and the asynchronous operations that are pending: FileReader     *)
(* reads started by handleImageUpload and the suspended invocations of     *)
(* handleGenerateClick.  Every handler runs to completion between two      *)
(* awaits, so each action below is one such run.                           *)
(***************************************************************************)
EXTENDS Naturals, Sequences, FiniteSets, Bags

VARIABLES
    files,                  \* the files the user can select or drop
    mainState,              \* position of main(): "start", "ready", "failed"
    ai,                     \* the GoogleGenAI client: "undefined" or "client"
    listeners,              \* initializeEventListeners() has run
    uploadedImage,          \* NULL or [base64, mimeType]
    selectedReferenceImage, \* NULL or the src of the selected gallery image
    selectedClass,          \* gallery images carrying the class "selected"
    promptInput,            \* [value, disabled] of the prompt textarea
    preview,                \* previewImage / uploadPrompt / removeImageBtn
    ui,                     \* generateBtn, loader, result area, error message
    reading,                \* bag of files whose FileReader read is pending
    inflight,               \* bag of suspended handleGenerateClick invocations
    ev,                     \* the last handler step that ran (history)
    arg,                    \* what that step was given (history)
    removed                 \* a remove click, no file chosen since (history)

vars == <<files, mainState, ai, listeners, uploadedImage,
          selectedReferenceImage, selectedClass, promptInput, preview, ui,
          reading, inflight, ev, arg, removed>>

(***************************************************************************)
(* Bounds of the model.                                                    *)
(***************************************************************************)
MaxInFlight == 2        \* suspended handleGenerateClick invocations at once
MaxPendingReads == 1    \* FileReader reads of user files pending at once

\* JavaScript null: of an object-valued variable, of a string-valued one.
NULL == [null |-> TRUE]
NULLSTR == "null"

(***************************************************************************)
(* Inputs.  A file or blob is [type, bytes]; a media type is the pair      *)
(* <<major, minor>> standing for "major/minor".  A string the code trims,  *)
(* splits or builds is the sequence of its pieces.                         *)
(***************************************************************************)
PngFile == [type |-> <<"image", "png">>, bytes |-> "A"]
TextFile == [type |-> <<"text", "plain">>, bytes |-> "C"]

\* Two of the eight gallery URLs of referenceImages.
referenceImages ==
    {"style-transfer-clay.png", "style-transfer-gold.png"}

\* What the user can have typed: nothing, blanks only, text with blanks
\* around it.
PromptValues == {<<>>, <<" ">>, <<" ", "x">>}

DefaultPrompt == <<"Apply the style of the second image to the first image.">>

\* The blob a reference URL resolves to.
BlobOf(url) == [type |-> <<"image", "png">>, bytes |-> url]

\* Faults: what a rejected fetch / blob() / generateContent throws.
FetchError == [isError |-> TRUE, message |-> "Failed to fetch"]
ServiceFaults == {[isError |-> TRUE, message |-> "503 UNAVAILABLE"],
                  [isError |-> FALSE, message |-> "rejected with a non-Error"]}
TypeErrorNull ==
    [isError |-> TRUE, message |-> "Cannot read properties of null"]

\* Service responses: candidates, each a sequence of parts.
ImgA ==
    [inlineData |->
        [data |-> <<"base64of", "R1">>, mimeType |-> <<"image", "png">>]]
ImgB ==
    [inlineData |->
        [data |-> <<"base64of", "R2">>, mimeType |-> <<"image", "png">>]]
Txt == [text |-> <<"Here is your image">>]
Responses ==
    { [candidates |-> << <<Txt, ImgA, ImgB>> >>],
      [candidates |-> << <<Txt>>, <<ImgB>> >>],
      [candidates |-> << >>] }

(***************************************************************************)
(* Pure helpers.                                                           *)
(***************************************************************************)
\* file.type.startsWith('image/')
startsWithImage(type) == type[1] = "image"

IsSpace(c) == c = " "

RECURSIVE TrimStart(_)
TrimStart(s) ==
    IF s = <<>> THEN <<>>
    ELSE IF IsSpace(Head(s)) THEN TrimStart(Tail(s)) ELSE s

RECURSIVE TrimEnd(_)
TrimEnd(s) ==
    IF s = <<>> THEN <<>>
    ELSE IF IsSpace(s[Len(s)]) THEN TrimEnd(SubSeq(s, 1, Len(s) - 1)) ELSE s

\* String.prototype.trim
Trim(s) == TrimEnd(TrimStart(s))

\* FileReader.readAsDataURL: "data:<type>;base64,<payload>" as its pieces.
readAsDataURL(blob) ==
    <<"data:", blob.type[1], "/", blob.type[2], ";base64", ",",
      "base64of", blob.bytes>>

\* String.prototype.split(','): the pieces between the commas.
RECURSIVE split(_)
split(s) ==
    IF s = <<>> THEN << <<>> >>
    ELSE LET rest == split(Tail(s))
         IN  IF Head(s) = ","
             THEN << <<>> >> \o rest
             ELSE << <<Head(s)>> \o Head(rest) >> \o Tail(rest)

\* (e.target.result as string).split(',')[1]; resolve({base64, mimeType})
toGenerativePart(blob) ==
    [base64 |-> split(readAsDataURL(blob))[2], mimeType |-> blob.type]

fileToGenerativePart(file) == toGenerativePart(file)

\* `data:${mimeType};base64,${base64}`
dataUrl(mimeType, base64) ==
    <<"data:", mimeType[1], "/", mimeType[2], ";base64", ",">> \o base64

inlineDataPart(img) ==
    [inlineData |-> [data |-> img.base64, mimeType |-> img.mimeType]]

textPart(text) == [text |-> text]

IsImagePart(part) == "inlineData" \in DOMAIN part
IsTextPart(part) == "text" \in DOMAIN part

(***************************************************************************)
(* UI helpers.  They take the DOM record and return it as the function     *)
(* leaves it; img is the value of uploadedImage the function reads.        *)
(***************************************************************************)
\* updateUIState: the value it gives generateBtn.disabled
updateUIState(img) == img = NULL

\* Faulty variant: the not-loading branch stops at
\* generateBtn.disabled = false and does not call updateUIState().
setLoading_NoUpdate(dom, isLoading, img) ==
    IF isLoading
    THEN [dom EXCEPT !.loader = "block",
                     !.resultPlaceholder = "none",
                     !.resultImage = "none",
                     !.errorMessage = "none",
                     !.downloadBtn = "none",
                     !.generateBtnDisabled = TRUE]
    ELSE [dom EXCEPT !.loader = "none",
                     !.generateBtnDisabled = FALSE]

\* Faulty variant: the download button is not hidden with the result.
setLoading_KeepsDownload(dom, isLoading, img) ==
    IF isLoading
    THEN [dom EXCEPT !.loader = "block",
                     !.resultPlaceholder = "none",
                     !.resultImage = "none",
                     !.errorMessage = "none",
                     !.generateBtnDisabled = TRUE]
    ELSE [dom EXCEPT !.loader = "none",
                     !.generateBtnDisabled = updateUIState(img)]

setLoading(dom, isLoading, img) ==
    IF isLoading
    THEN [dom EXCEPT !.loader = "block",
                     !.resultPlaceholder = "none",
                     !.resultImage = "none",
                     !.errorMessage = "none",
                     !.downloadBtn = "none",
                     !.generateBtnDisabled = TRUE]
    ELSE [dom EXCEPT !.loader = "none",
                     !.generateBtnDisabled = updateUIState(img)]

displayError(dom, message, img) ==
    [setLoading(dom, FALSE, img) EXCEPT
        !.errorText = <<"Error: ", message>>,
        !.errorMessage = "block"]

\* error instanceof Error ? error.message : 'An unknown error occurred.'
errorText(error) ==
    IF error.isError THEN error.message ELSE "An unknown error occurred."

NoImageMessage == "No image was generated. Please try a different prompt."
InitFailedMessage ==
    "Could not initialize the AI service. Please check your API key setup."

(***************************************************************************)
(* Initial state: the script's top-level declarations, and the page as the *)
(* markup presents it before main() runs.                                  *)
(***************************************************************************)
InitialDom ==
    [generateBtnDisabled |-> FALSE,
     loader |-> "none",
     resultPlaceholder |-> "block",
     resultImage |-> "none",
     resultImageSrc |-> <<>>,
     errorMessage |-> "none",
     errorText |-> <<>>,
     downloadBtn |-> "none"]

InitialPreview ==
    [src |-> <<>>, previewImage |-> "none", uploadPrompt |-> "flex",
     removeImageBtn |-> "none"]

Init ==
    /\ files = {PngFile, TextFile}
    /\ mainState = "start"
    /\ ai = "undefined"
    /\ listeners = FALSE
    /\ uploadedImage = NULL
    /\ selectedReferenceImage = NULLSTR
    /\ selectedClass = {}
    /\ promptInput = [value |-> <<>>, disabled |-> FALSE]
    /\ preview = InitialPreview
    /\ ui = InitialDom
    /\ reading = EmptyBag
    /\ inflight = EmptyBag
    /\ ev = "load"
    /\ arg = NULLSTR
    /\ removed = FALSE

(***************************************************************************)
(* main()                                                                  *)
(***************************************************************************)
\* new GoogleGenAI(...) returns: gallery, listeners, updateUIState().
MainOk ==
    /\ mainState = "start"
    /\ mainState' = "ready"
    /\ ai' = "client"
    /\ listeners' = TRUE
    /\ ui' = [ui EXCEPT !.generateBtnDisabled = updateUIState(uploadedImage)]
    /\ ev' = "step"
    /\ arg' = NULLSTR
    /\ UNCHANGED <<removed, files, uploadedImage, selectedReferenceImage,
                   selectedClass, promptInput, preview, reading, inflight>>

\* Faulty variant: the listeners are set up before the client is built, so
\* they are in place when the catch block returns.
MainFail_ListenersFirst ==
    /\ mainState = "start"
    /\ mainState' = "failed"
    /\ listeners' = TRUE
    /\ ui' = [displayError(ui, InitFailedMessage, uploadedImage) EXCEPT
                 !.generateBtnDisabled = TRUE]
    /\ promptInput' = [promptInput EXCEPT !.disabled = TRUE]
    /\ ev' = "step"
    /\ arg' = NULLSTR
    /\ UNCHANGED <<removed, files, ai, uploadedImage, selectedReferenceImage,
                   selectedClass, preview, reading, inflight>>

\* new GoogleGenAI(...) throws: the catch block, then return.
MainFail ==
    /\ mainState = "start"
    /\ mainState' = "failed"
    /\ ui' = [displayError(ui, InitFailedMessage, uploadedImage) EXCEPT
                 !.generateBtnDisabled = TRUE]
    /\ promptInput' = [promptInput EXCEPT !.disabled = TRUE]
    /\ ev' = "step"
    /\ arg' = NULLSTR
    /\ UNCHANGED <<removed, files, ai, listeners, uploadedImage,
                   selectedReferenceImage, selectedClass, preview, reading,
                   inflight>>

(***************************************************************************)
(* The prompt textarea: the user edits its value unless it is disabled.    *)
(***************************************************************************)
TypePrompt ==
    /\ mainState # "start"
    /\ ~promptInput.disabled
    /\ \E v \in PromptValues :
          /\ v # promptInput.value
          /\ promptInput' = [promptInput EXCEPT !.value = v]
    /\ ev' = "step"
    /\ arg' = NULLSTR
    /\ UNCHANGED <<removed, files, mainState, ai, listeners, uploadedImage,
                   selectedReferenceImage, selectedClass, preview, ui,
                   reading, inflight>>

(***************************************************************************)
(* handleImageUpload, reached from the file input's change listener and    *)
(* from the drop listener; it suspends on fileToGenerativePart.            *)
(***************************************************************************)
\* A pending operation is added to, or leaves, the bag of pending ones.
Added(bag, x) == bag (+) SetToBag({x})
Removed(bag, x) == bag (-) SetToBag({x})

\* Up to the await: the type check, then the FileReader read is started.
HandleImageUpload ==
    /\ listeners
    /\ \E file \in files :
          IF ~startsWithImage(file.type)
          THEN /\ reading' = reading          \* alert(...); return
          ELSE /\ BagCardinality(reading) < MaxPendingReads
               /\ reading' = Added(reading, file)
    /\ ev' = "step"
    /\ arg' = NULLSTR
    /\ removed' = FALSE
    /\ UNCHANGED <<files, mainState, ai, listeners, uploadedImage,
                   selectedReferenceImage, selectedClass, promptInput,
                   preview, ui, inflight>>

\* reader.onload resolves the promise; the handler resumes after the await.
FileReaderLoad ==
    /\ \E file \in BagToSet(reading) :
          LET img == fileToGenerativePart(file)
          IN  /\ uploadedImage' = img
              /\ preview' = [src |-> dataUrl(img.mimeType, img.base64),
                             previewImage |-> "block",
                             uploadPrompt |-> "none",
                             removeImageBtn |-> "flex"]
              /\ ui' = [ui EXCEPT !.generateBtnDisabled = updateUIState(img)]
              /\ reading' = Removed(reading, file)
    /\ ev' = "step"
    /\ arg' = NULLSTR
    /\ UNCHANGED <<removed, files, mainState, ai, listeners, selectedReferenceImage,
                   selectedClass, promptInput, inflight>>

\* The read fails: no onerror handler, the promise never settles and the
\* handler never resumes.
FileReaderError ==
    /\ \E file \in BagToSet(reading) : reading' = Removed(reading, file)
    /\ ev' = "step"
    /\ arg' = NULLSTR
    /\ UNCHANGED <<removed, files, mainState, ai, listeners, uploadedImage,
                   selectedReferenceImage, selectedClass, promptInput,
                   preview, ui, inflight>>

(***************************************************************************)
(* handleRemoveImage: the remove button is clickable while it is shown.    *)
(***************************************************************************)
\* Faulty variant: uploadedImage = null is missing.
HandleRemoveImage_KeepsImage ==
    /\ listeners
    /\ preview.removeImageBtn # "none"
    /\ preview' = [src |-> <<>>, previewImage |-> "none",
                   uploadPrompt |-> "flex", removeImageBtn |-> "none"]
    /\ ui' = [ui EXCEPT !.generateBtnDisabled = updateUIState(NULL)]
    /\ ev' = "removed"
    /\ arg' = NULLSTR
    /\ removed' = TRUE
    /\ UNCHANGED <<files, mainState, ai, listeners, uploadedImage,
                   selectedReferenceImage, selectedClass, promptInput,
                   reading, inflight>>

HandleRemoveImage ==
    /\ listeners
    /\ preview.removeImageBtn # "none"
    /\ uploadedImage' = NULL
    /\ preview' = [src |-> <<>>, previewImage |-> "none",
                   uploadPrompt |-> "flex", removeImageBtn |-> "none"]
    /\ ui' = [ui EXCEPT !.generateBtnDisabled = updateUIState(NULL)]
    /\ ev' = "removed"
    /\ arg' = NULLSTR
    /\ removed' = TRUE
    /\ UNCHANGED <<files, mainState, ai, listeners, selectedReferenceImage,
                   selectedClass, promptInput, reading, inflight>>

(***************************************************************************)
(* handleReferenceImageSelect: a click in the gallery, on one of its       *)
(* images or on the gallery itself ("DIV").                                *)
(***************************************************************************)
galleryOrder == <<"style-transfer-clay.png", "style-transfer-gold.png">>

\* document.querySelector('.reference-img.selected'): the first in the page
firstSelected(selected) ==
    LET idx == {i \in 1..Len(galleryOrder) : galleryOrder[i] \in selected}
    IN  IF idx = {} THEN {}
        ELSE {galleryOrder[CHOOSE i \in idx : \A j \in idx : i <= j]}

\* Faulty variant: the clicked image is selected whatever the current one.
toggleReference_Always(current, target) == target

\* The value the handler leaves in selectedReferenceImage.
toggleReference(current, target) ==
    IF current = target THEN NULLSTR ELSE target

HandleReferenceImageSelect ==
    /\ listeners
    /\ \E target \in referenceImages \cup {"DIV"} :
          IF target = "DIV"
          THEN /\ UNCHANGED <<selectedReferenceImage, selectedClass>>
               /\ ev' = "step"
               /\ arg' = NULLSTR
          ELSE LET cleared == selectedClass \ firstSelected(selectedClass)
               IN  /\ selectedReferenceImage' =
                          toggleReference(selectedReferenceImage, target)
                   /\ selectedClass' =
                          IF selectedReferenceImage = target
                          THEN cleared
                          ELSE cleared \cup {target}
                   /\ ev' = "refClick"
                   /\ arg' = target
    /\ UNCHANGED <<removed, files, mainState, ai, listeners, uploadedImage, promptInput,
                   preview, ui, reading, inflight>>

(***************************************************************************)
(* handleGenerateClick.  An invocation that passes validation is kept in   *)
(* inflight while it is suspended on an await:                             *)
(*   stage "reference"  await urlToGenerativePart(selectedReferenceImage)  *)
(*   stage "service"    await ai.models.generateContent(...)               *)
(* url, contents and promptText are its locals; typed and subject record   *)
(* promptInput.value and uploadedImage as they were at the click.          *)
(***************************************************************************)
\* Faulty variant: the subject check is skipped when a style is present.
Validation_StyleFirst(img, ref, value) ==
    IF ref = NULLSTR /\ Trim(value) = <<>>
    THEN IF img = NULL THEN "noImage" ELSE "noStyle"
    ELSE "ok"

\* Faulty variant: the prompt is tested without trim().
Validation_NoTrim(img, ref, value) ==
    IF img = NULL THEN "noImage"
    ELSE IF ref = NULLSTR /\ value = <<>> THEN "noStyle"
    ELSE "ok"

\* The two checks that open the handler.
Validation(img, ref, value) ==
    IF img = NULL THEN "noImage"
    ELSE IF ref = NULLSTR /\ Trim(value) = <<>> THEN "noStyle"
    ELSE "ok"

\* catch (error) { displayError(...) } finally { setLoading(false) }
catchFinally(dom, error, img) ==
    setLoading(displayError(dom, errorText(error), img), FALSE, img)

\* Faulty variant: the reference part is put in front (unshift for push).
withReference_Unshift(contents, refImagePart) ==
    <<inlineDataPart(refImagePart)>> \o contents

\* contents.push({inlineData: refImagePart})
withReference(contents, refImagePart) ==
    Append(contents, inlineDataPart(refImagePart))

\* Faulty variant: no default is supplied.
defaultedPrompt_None(promptText) == promptText

\* if (!promptText) promptText = "Apply the style ..."
defaultedPrompt(promptText) ==
    IF promptText = <<>> THEN DefaultPrompt ELSE promptText

\* contents.push({ text: promptText })
withText(contents, promptText) == Append(contents, textPart(promptText))

\* Faulty variant: the parts of every candidate are searched, in order.
RECURSIVE allParts(_)
allParts(candidates) ==
    IF candidates = <<>> THEN <<>>
    ELSE Head(candidates) \o allParts(Tail(candidates))

findImagePart_AnyCandidate(response) ==
    LET parts == allParts(response.candidates)
        idx == {i \in 1..Len(parts) : IsImagePart(parts[i])}
    IN  IF idx = {} THEN NULL
        ELSE parts[CHOOSE i \in idx : \A j \in idx : i <= j].inlineData

\* response.candidates?.[0]?.content?.parts?.find(p => p.inlineData)?.inlineData
findImagePart(response) ==
    IF Len(response.candidates) = 0 THEN NULL
    ELSE LET parts == response.candidates[1]
             idx == {i \in 1..Len(parts) : IsImagePart(parts[i])}
         IN  IF idx = {} THEN NULL
             ELSE parts[CHOOSE i \in idx : \A j \in idx : i <= j].inlineData

\* The handler from the click to its first await (or to its return).
handleGenerateClick ==
    LET check == Validation(uploadedImage, selectedReferenceImage,
                            promptInput.value)
        busy == setLoading(ui, TRUE, uploadedImage)
        promptText == Trim(promptInput.value)
        attempt == [stage |-> "reference",
                    url |-> selectedReferenceImage,
                    contents |-> <<inlineDataPart(uploadedImage)>>,
                    promptText |-> promptText,
                    typed |-> promptInput.value,
                    subject |-> uploadedImage]
    IN  /\ CASE check = "noImage" ->          \* alert(...); return
                  /\ ev' = "alertNoImage"
                  /\ arg' = NULLSTR
                  /\ UNCHANGED <<ui, inflight>>
             [] check = "noStyle" ->          \* alert(...); return
                  /\ ev' = "alertNoStyle"
                  /\ arg' = NULLSTR
                  /\ UNCHANGED <<ui, inflight>>
             [] check = "ok" /\ uploadedImage = NULL ->
                  \* uploadedImage.base64 throws inside the try
                  /\ ui' = catchFinally(busy, TypeErrorNull, uploadedImage)
                  /\ ev' = "submitFault"
                  /\ arg' = NULLSTR
                  /\ UNCHANGED inflight
             [] check = "ok" /\ uploadedImage # NULL
                             /\ selectedReferenceImage # NULLSTR ->
                  /\ BagCardinality(inflight) < MaxInFlight
                  /\ ui' = busy
                  /\ inflight' = Added(inflight, attempt)
                  /\ ev' = "submitted"
                  /\ arg' = NULLSTR
             [] check = "ok" /\ uploadedImage # NULL
                             /\ selectedReferenceImage = NULLSTR
                             /\ ai = "client" ->
                  /\ BagCardinality(inflight) < MaxInFlight
                  /\ ui' = busy
                  /\ inflight' = Added(inflight,
                        [attempt EXCEPT
                            !.stage = "service",
                            !.contents = withText(@, promptText)])
                  /\ ev' = "submitted"
                  /\ arg' = NULLSTR
             [] OTHER ->                      \* ai.models throws inside the try
                  /\ ui' = catchFinally(busy, TypeErrorNull, uploadedImage)
                  /\ ev' = "submitFault"
                  /\ arg' = NULLSTR
                  /\ UNCHANGED inflight
        /\ UNCHANGED <<removed, files, mainState, ai, listeners, uploadedImage,
                       selectedReferenceImage, selectedClass, promptInput,
                       preview, reading>>

\* The user clicks the button: the browser delivers no click to a disabled
\* button.
ClickGenerate ==
    /\ listeners
    /\ ~ui.generateBtnDisabled
    /\ handleGenerateClick

\* A click event dispatched to the button by script reaches the listener
\* whatever the button's disabled flag.
DispatchGenerate ==
    /\ listeners
    /\ ui.generateBtnDisabled
    /\ handleGenerateClick

\* A rejected await: catch, finally, return.
Throw(a, error) ==
    /\ ui' = catchFinally(ui, error, uploadedImage)
    /\ inflight' = Removed(inflight, a)
    /\ ev' = "fault"
    /\ arg' = NULLSTR

\* urlToGenerativePart resolves (fetch, blob() and the FileReader read of
\* the blob all succeed): the handler resumes, completes the request and
\* calls the service.
\* Faulty variant: the prompt field is read after the await.
ReferenceResolve_ReadsLate ==
    /\ \E a \in BagToSet(inflight) :
          LET refImagePart == toGenerativePart(BlobOf(a.url))
              promptText == defaultedPrompt(Trim(promptInput.value))
              contents == withText(withReference(a.contents, refImagePart),
                                   promptText)
          IN  /\ a.stage = "reference"
              /\ IF ai = "client"
                 THEN /\ inflight' = Added(Removed(inflight, a),
                                        [a EXCEPT !.stage = "service",
                                                  !.promptText = promptText,
                                                  !.contents = contents])
                      /\ ev' = "step"
                      /\ arg' = NULLSTR
                      /\ UNCHANGED ui
                 ELSE Throw(a, TypeErrorNull)
    /\ UNCHANGED <<removed, files, mainState, ai, listeners, uploadedImage,
                   selectedReferenceImage, selectedClass, promptInput,
                   preview, reading>>

ReferenceResolve ==
    /\ \E a \in BagToSet(inflight) :
          LET refImagePart == toGenerativePart(BlobOf(a.url))
              promptText == defaultedPrompt(a.promptText)
              contents == withText(withReference(a.contents, refImagePart),
                                   promptText)
          IN  /\ a.stage = "reference"
              /\ IF ai = "client"
                 THEN /\ inflight' = Added(Removed(inflight, a),
                                        [a EXCEPT !.stage = "service",
                                                  !.promptText = promptText,
                                                  !.contents = contents])
                      /\ ev' = "step"
                      /\ arg' = NULLSTR
                      /\ UNCHANGED ui
                 ELSE Throw(a, TypeErrorNull)
    /\ UNCHANGED <<removed, files, mainState, ai, listeners, uploadedImage,
                   selectedReferenceImage, selectedClass, promptInput,
                   preview, reading>>

\* urlToGenerativePart rejects: fetch(url) or response.blob() rejected.
ReferenceReject ==
    /\ \E a \in BagToSet(inflight) :
          /\ a.stage = "reference"
          /\ Throw(a, FetchError)
    /\ UNCHANGED <<removed, files, mainState, ai, listeners, uploadedImage,
                   selectedReferenceImage, selectedClass, promptInput,
                   preview, reading>>

\* The FileReader read of the blob fails: the promise has only a resolve
\* path (no onerror, no reject), so it never settles and the handler never
\* resumes; neither catch nor finally runs.
ReferenceReaderError ==
    /\ \E a \in BagToSet(inflight) :
          /\ a.stage = "reference"
          /\ inflight' = Removed(inflight, a)
    /\ ev' = "hung"
    /\ arg' = NULLSTR
    /\ UNCHANGED <<removed, files, mainState, ai, listeners, uploadedImage,
                   selectedReferenceImage, selectedClass, promptInput,
                   preview, ui, reading>>

\* generateContent resolves: the image part is shown, or the empty-result
\* error; then finally.
ServiceResolve ==
    /\ \E a \in BagToSet(inflight), response \in Responses :
          LET imagePart == findImagePart(response)
          IN  /\ a.stage = "service"
              /\ IF imagePart # NULL
                 THEN /\ ui' = setLoading(
                                 [ui EXCEPT
                                    !.resultImageSrc =
                                        dataUrl(imagePart.mimeType,
                                                imagePart.data),
                                    !.resultImage = "block",
                                    !.downloadBtn = "flex"],
                                 FALSE, uploadedImage)
                      /\ ev' = "image"
                 ELSE /\ ui' = setLoading(
                                 displayError(ui, NoImageMessage,
                                              uploadedImage),
                                 FALSE, uploadedImage)
                      /\ ev' = "empty"
              /\ inflight' = Removed(inflight, a)
              /\ arg' = response
    /\ UNCHANGED <<removed, files, mainState, ai, listeners, uploadedImage,
                   selectedReferenceImage, selectedClass, promptInput,
                   preview, reading>>

\* generateContent rejects.
ServiceReject ==
    /\ \E a \in BagToSet(inflight), error \in ServiceFaults :
          /\ a.stage = "service"
          /\ Throw(a, error)
    /\ UNCHANGED <<removed, files, mainState, ai, listeners, uploadedImage,
                   selectedReferenceImage, selectedClass, promptInput,
                   preview, reading>>

(***************************************************************************)
(* Specifications.                                                         *)
(***************************************************************************)
\* The click listener of downloadBtn: an anchor with href = resultImage.src
\* and download = 'fused-image.png' is clicked, which saves that image. A
\* button that is not displayed receives no click.
Download ==
    /\ listeners
    /\ ui.downloadBtn # "none"
    /\ ev' = "download"
    /\ arg' = ui.resultImageSrc
    /\ UNCHANGED <<removed, files, mainState, ai, listeners, uploadedImage,
                   selectedReferenceImage, selectedClass, promptInput,
                   preview, ui, reading, inflight>>

UserEvent ==
    \/ TypePrompt
    \/ HandleImageUpload
    \/ HandleRemoveImage
    \/ HandleReferenceImageSelect
    \/ ClickGenerate
    \/ Download

Completion ==
    \/ FileReaderLoad
    \/ FileReaderError
    \/ ReferenceResolve
    \/ ReferenceReject
    \/ ReferenceReaderError
    \/ ServiceResolve
    \/ ServiceReject

Next == MainOk \/ MainFail \/ UserEvent \/ Completion

Spec == Init /\ [][Next]_vars

\* The same page with click events also dispatched by script.
NextDispatch == Next \/ DispatchGenerate

SpecDispatch == Init /\ [][NextDispatch]_vars

\* Every pending asynchronous operation settles: a FileReader read ends in
\* load or error, urlToGenerativePart's awaits and the service call resolve
\* or reject.
FairSpec ==
    /\ Spec
    /\ WF_vars(FileReaderLoad \/ FileReaderError)
    /\ WF_vars(ReferenceResolve \/ ReferenceReject \/ ReferenceReaderError)
    /\ WF_vars(ServiceResolve \/ ServiceReject)

(***************************************************************************)
(* Properties.                                                             *)
(***************************************************************************)
\* ev after a run of handleGenerateClick from the click to its first await
\* or return, and after the run in which an invocation ends.
SubmitTags == {"alertNoImage", "alertNoStyle", "submitted", "submitFault"}
CompletionTags == {"image", "empty", "fault", "submitFault"}

InService == {a \in BagToSet(inflight) : a.stage = "service"}

EmptyResultText == <<"Error: ", NoImageMessage>>

\* C1: in every reachable state at most one generation request is in
\* flight.
C1_AtMostOneInFlight == BagCardinality(inflight) <= 1

\* C2: a run of the submit handler that starts with no subject image adds
\* no pending request (no reference fetch, no service call) and does not
\* touch the loader or the trigger, whatever the reference selection and the
\* prompt are.
C2_NoSubjectNoCall ==
    [][(ev' \in SubmitTags /\ uploadedImage = NULL)
          => /\ inflight' = inflight
             /\ ui'.loader = ui.loader
             /\ ui'.generateBtnDisabled = ui.generateBtnDisabled]_vars

C2_Witness ==
    /\ ev = "alertNoImage"
    /\ uploadedImage = NULL
    /\ selectedReferenceImage # NULLSTR
    /\ Trim(promptInput.value) # <<>>

\* C3: a run of the submit handler that starts with a subject image, no
\* reference selected and a prompt that is empty or blank adds no pending
\* request and does not touch the loader or the trigger.
C3_NoStyleNoCall ==
    [][(/\ ev' \in SubmitTags
        /\ uploadedImage # NULL
        /\ selectedReferenceImage = NULLSTR
        /\ \A i \in 1..Len(promptInput.value) : IsSpace(promptInput.value[i]))
          => /\ inflight' = inflight
             /\ ui'.loader = ui.loader
             /\ ui'.generateBtnDisabled = ui.generateBtnDisabled]_vars

C3_Witness ==
    /\ ev = "alertNoStyle"
    /\ uploadedImage # NULL
    /\ selectedReferenceImage = NULLSTR
    /\ promptInput.value = <<" ">>

\* C4: every request at the service is: the subject image, then the
\* reference image exactly when a reference was selected at the click, then
\* one text part; so two parts without a reference and three with one.
C4_PartSequence ==
    \A a \in InService :
        LET n == Len(a.contents)
        IN  /\ n = IF a.url # NULLSTR THEN 3 ELSE 2
            /\ a.contents[1] = inlineDataPart(a.subject)
            /\ a.url # NULLSTR =>
                  a.contents[2] =
                      inlineDataPart(toGenerativePart(BlobOf(a.url)))
            /\ IsTextPart(a.contents[n])
            /\ \A i \in 1..(n - 1) : IsImagePart(a.contents[i])

C4_Witness ==
    \E a, b \in InService :
        /\ a.url = NULLSTR /\ Len(a.contents) = 2
        /\ b.url # NULLSTR /\ Len(b.contents) = 3
        /\ Trim(b.typed) # <<>>

\* C5: every request at the service holds the subject image and a non-empty
\* text: the fixed default when a reference was selected and the typed
\* prompt was empty or blank, the trimmed typed prompt otherwise.
C5_SubjectAndText ==
    \A a \in InService :
        LET texts == {i \in 1..Len(a.contents) : IsTextPart(a.contents[i])}
        IN  /\ \E i \in 1..Len(a.contents) :
                  /\ IsImagePart(a.contents[i])
                  /\ a.contents[i].inlineData.data = a.subject.base64
            /\ texts # {}
            /\ \A i \in texts :
                  /\ a.contents[i].text # <<>>
                  /\ a.contents[i].text =
                        IF a.url # NULLSTR /\ Trim(a.typed) = <<>>
                        THEN DefaultPrompt
                        ELSE Trim(a.typed)

C5_Witness ==
    \E a, b \in InService :
        /\ a.url # NULLSTR /\ a.typed = <<" ">>
        /\ b.url # NULLSTR /\ b.typed = <<" ", "x">>
        /\ b.contents[3].text = <<"x">>

\* C6: whenever the loader is shown it is eventually hidden again.
C6_BusyEventuallyCleared ==
    [](ui.loader = "block" => <>(ui.loader = "none"))

\* C7: when a generation attempt has just ended (image, no image, fault) the
\* trigger is enabled exactly if a subject image is present.
C7_TriggerAfterCompletion ==
    ev \in CompletionTags =>
        (~ui.generateBtnDisabled <=> uploadedImage # NULL)

C7_Witness ==
    /\ ev \in {"image", "empty", "fault"}
    /\ uploadedImage = NULL
    /\ ui.generateBtnDisabled

\* C8: when an attempt has just ended with a response that holds no image,
\* the empty-result error is visible and neither a result image nor the
\* download control is.
C8_EmptyResultNoStaleImage ==
    ev = "empty" =>
        /\ ui.errorMessage = "block"
        /\ ui.errorText = EmptyResultText
        /\ ui.resultImage = "none"
        /\ ui.downloadBtn = "none"

\* C9: when an attempt has just ended with a fault, an error message is
\* visible, the loader is hidden and no result image is shown.
C9_FaultShowsErrorOnly ==
    ev = "fault" =>
        /\ ui.errorMessage = "block"
        /\ ui.loader = "none"
        /\ ui.resultImage = "none"

\* C10: once main() has failed to build the client, the setup error is
\* shown, the trigger and the prompt input are disabled, and no request is
\* pending, in that state and in every later one.
C10_InitFailureDisables ==
    mainState = "failed" =>
        /\ ui.errorMessage = "block"
        /\ ui.errorText = <<"Error: ", InitFailedMessage>>
        /\ ui.generateBtnDisabled
        /\ promptInput.disabled
        /\ inflight = EmptyBag

C10_Witness ==
    /\ mainState = "failed"
    /\ ui.errorMessage = "block"

\* C11: a click on a gallery image that is not the current selection makes
\* it the selection, alone; a click on the current selection leaves none
\* selected; in every state at most one image is selected, and the class
\* "selected" marks exactly that one.
C11_SingleSelectToggle ==
    /\ [](/\ Cardinality(selectedClass) <= 1
          /\ selectedClass =
                IF selectedReferenceImage = NULLSTR THEN {}
                ELSE {selectedReferenceImage})
    /\ [][ev' = "refClick" =>
            IF selectedReferenceImage = arg'
            THEN selectedReferenceImage' = NULLSTR
            ELSE selectedReferenceImage' = arg']_vars

\* An image was selected and then clicked again: none is selected.
C11_Witness ==
    /\ ev = "refClick"
    /\ arg \in referenceImages
    /\ selectedReferenceImage = NULLSTR
    /\ selectedClass = {}

\* C12: a run of the submit handler that validation rejects (no subject
\* image, or no reference and an empty or blank prompt) leaves the subject
\* image, the reference selection, the trigger, the loader, the result
\* image, the download control and the error message as they were.
C12_RejectedSubmitNoChange ==
    [][(/\ ev' \in SubmitTags
        /\ \/ uploadedImage = NULL
           \/ /\ selectedReferenceImage = NULLSTR
              /\ Trim(promptInput.value) = <<>>)
          => UNCHANGED <<uploadedImage, selectedReferenceImage,
                         selectedClass, promptInput, preview, ui, reading,
                         inflight>>]_vars

\* A rejected submit with an earlier result still on the page.
C12_Witness ==
    /\ ev = "alertNoStyle"
    /\ ui.resultImage = "block"
    /\ ui.downloadBtn = "flex"
    /\ ui.loader = "none"

\* C13: when a response has just been handled, the result shown is the
\* first part carrying image data of the first candidate; if the first
\* candidate has no such part the empty-result error is shown, whatever the
\* later candidates hold.
C13_FirstImageOfFirstCandidate ==
    ev \in {"image", "empty"} =>
        LET parts == IF Len(arg.candidates) = 0 THEN <<>>
                     ELSE arg.candidates[1]
            imgs == {i \in 1..Len(parts) : IsImagePart(parts[i])}
        IN  IF imgs = {}
            THEN /\ ev = "empty"
                 /\ ui.errorMessage = "block"
                 /\ ui.errorText = EmptyResultText
            ELSE /\ ev = "image"
                 /\ ui.resultImage = "block"
                 /\ \E i \in imgs :
                       /\ \A j \in imgs : i <= j
                       /\ ui.resultImageSrc =
                             dataUrl(parts[i].inlineData.mimeType,
                                     parts[i].inlineData.data)

\* A response whose first candidate has no image part and whose second has
\* one was handled as an empty result.
C13_Witness ==
    /\ ev = "empty"
    /\ Len(arg.candidates) = 2
    /\ \E i \in 1..Len(arg.candidates[2]) :
          IsImagePart(arg.candidates[2][i])

\* A response with two image parts after a text part was rendered.
C13_WitnessImage ==
    /\ ev = "image"
    /\ Len(arg.candidates[1]) = 3
    /\ ui.resultImageSrc = dataUrl(ImgA.inlineData.mimeType,
                                   ImgA.inlineData.data)

\* C14: while an invocation of the submit handler is pending, the trigger
\* is disabled and the loader is shown.
C14_BusyWhilePending ==
    inflight # EmptyBag =>
        /\ ui.generateBtnDisabled
        /\ ui.loader = "block"

\* C15 as claimed: from a remove click until the user next selects or drops
\* a file, no subject image is present.
C15_AbsentUntilNextChoice == removed => uploadedImage = NULL

\* C15 as the code has it: a remove click leaves no subject image, and a
\* subject image appears only when a pending FileReader read completes,
\* which installs that read's file, whether the read was started after the
\* remove click or before it.
C15_AbsentUntilReadCompletes ==
    [][/\ ev' = "removed" => uploadedImage' = NULL
       /\ (uploadedImage = NULL /\ uploadedImage' # NULL) =>
             \E file \in BagToSet(reading) :
                 /\ uploadedImage' = fileToGenerativePart(file)
                 /\ reading' = Removed(reading, file)]_vars

\* A read started before the remove click has completed after it.
C15_Witness ==
    /\ removed
    /\ uploadedImage # NULL
    /\ reading = EmptyBag

\* What a submit with this subject image, this selected reference (or none)
\* and this prompt field sends.
C16_AtSubmit(subject, url, typed) ==
    LET text == Trim(typed)
    IN  IF url = NULLSTR
        THEN <<inlineDataPart(subject), textPart(text)>>
        ELSE <<inlineDataPart(subject),
               inlineDataPart(toGenerativePart(BlobOf(url))),
               textPart(IF text = <<>> THEN DefaultPrompt ELSE text)>>

\* C16: the parts sent to the service are those of the subject image, the
\* reference selection and the prompt as they were at the moment of submit,
\* whatever the user changed while the request was pending.
C16_ContentsFixedAtSubmit ==
    \A a \in InService :
        a.contents = C16_AtSubmit(a.subject, a.url, a.typed)

\* A request that waited for its reference image is at the service, and
\* since its submit the subject image was removed, the reference selection
\* changed and the prompt was edited.
C16_Witness ==
    \E a \in InService :
        /\ a.url # NULLSTR
        /\ uploadedImage = NULL
        /\ selectedReferenceImage # a.url
        /\ Trim(promptInput.value) # Trim(a.typed)

\* C17: the result image and the error message are never both visible, and
\* while the loader is shown neither of them is visible.
C17_ImageErrorLoaderExclusive ==
    /\ ~(ui.resultImage # "none" /\ ui.errorMessage # "none")
    /\ ui.loader # "none" =>
          (ui.resultImage = "none" /\ ui.errorMessage = "none")

\* C18: whenever the download button is displayed the result image is
\* displayed and has a source, and what a download click exports is the
\* source of the result image displayed at that moment.
C18_DownloadOnlyWithImage ==
    /\ ui.downloadBtn # "none" =>
          (ui.resultImage # "none" /\ ui.resultImageSrc # <<>>)
    /\ ev = "download" =>
          (ui.resultImage # "none" /\ arg = ui.resultImageSrc)

\* A download click has exported an image.
C18_Witness ==
    /\ ev = "download"
    /\ arg = dataUrl(ImgA.inlineData.mimeType, ImgA.inlineData.data)
    /\ ui.resultImage = "block"

\* C19: once main() has built the client, in every state with no request
\* in flight the trigger is enabled exactly if a subject image is present,
\* and in every state the trigger is disabled if no subject image is present.
C19_TriggerIffSubject ==
    mainState = "ready" =>
        /\ inflight = EmptyBag =>
              (~ui.generateBtnDisabled <=> uploadedImage # NULL)
        /\ uploadedImage = NULL => ui.generateBtnDisabled

====
